---- MODULE Spec2Model ----
(***************************************************************************)
(* Model of pipmap's Mapper (src/pipmap/mapper.py).                        *)
(*                                                                         *)
(* Python strings are sequences of one-character strings, so that strip,   *)
(* find, split, replace, endswith and path formatting are computed on      *)
(* characters as the code computes them.  Python dicts are sequences of    *)
(* <<key, value>> pairs in insertion order.                                *)
(***************************************************************************)
EXTENDS Integers, Sequences, FiniteSets, TLC

VARIABLES
    fs,         \* the filesystem: path -> a directory, or a file and its text
    fmt,        \* Mapper._fmt
    pkgs_map,   \* Mapper._pkgs_map
    pc,         \* position of the caller inside Mapper.map
    reqs_dict,  \* local reqs_dict of map()
    idx,        \* position of the for loop of map() in reqs_dict
    cur_err,    \* local err of map(): stderr of the install of reqs_dict[idx]
    log,        \* what the current map() call did so far, in order
    map0,       \* _pkgs_map as it was when the current map() call began
    pkgs_info,  \* local pkgs_info of _format()
    response,   \* what map() returned, or the exception it raised
    call,       \* arguments of a direct call of one method
    ret         \* its result

vars == <<fs, fmt, pkgs_map, pc, reqs_dict, idx, cur_err, log, map0,
          pkgs_info, response, call, ret>>

mapVars == <<fmt, pkgs_map, pc, reqs_dict, idx, cur_err, log, map0,
             pkgs_info, response>>

----------------------------------------------------------------------------
\* Python values

PyNone == [tag |-> "None"]
PyList(x) == [tag |-> "list", v |-> x]
PyDict(x) == [tag |-> "dict", v |-> x]
PyStr(x) == [tag |-> "str", v |-> x]
PyInt(x) == [tag |-> "int", v |-> x]

Ok(x) == [tag |-> "ok", v |-> x]
Raise(e) == [tag |-> "raise", exc |-> e]

----------------------------------------------------------------------------
\* str methods

Whitespace == {" ", "\t", "\n"}

RECURSIVE LStrip(_)
LStrip(s) ==
    IF s # <<>> /\ Head(s) \in Whitespace THEN LStrip(Tail(s)) ELSE s

RECURSIVE RStrip(_)
RStrip(s) ==
    IF s # <<>> /\ s[Len(s)] \in Whitespace
    THEN RStrip(SubSeq(s, 1, Len(s) - 1))
    ELSE s

Strip(s) == RStrip(LStrip(s))

EndsWith(s, p) ==
    Len(p) <= Len(s) /\ SubSeq(s, Len(s) - Len(p) + 1, Len(s)) = p

\* str.find: the 0-based index of the first occurrence, -1 when there is none
Find(s, d) ==
    LET hits == {i \in 0..(Len(s) - Len(d)) : SubSeq(s, i + 1, i + Len(d)) = d}
    IN IF hits = {} THEN -1 ELSE CHOOSE i \in hits : \A j \in hits : i <= j

\* str.split(d, 1) for a non-empty d
SplitOnce(s, d) ==
    LET i == Find(s, d)
    IN IF i = -1 THEN <<s>>
       ELSE <<SubSeq(s, 1, i), SubSeq(s, i + Len(d) + 1, Len(s))>>

\* str.replace("-", "_")
Replace(s) == [i \in 1..Len(s) |-> IF s[i] = "-" THEN "_" ELSE s[i]]

\* sep.join(parts)
RECURSIVE Join(_, _)
Join(parts, sep) ==
    IF parts = <<>> THEN <<>>
    ELSE IF Len(parts) = 1 THEN parts[1]
    ELSE parts[1] \o sep \o Join(Tail(parts), sep)

\* file.readlines(): the text cut after every newline, the newlines kept
RECURSIVE ReadLines(_)
ReadLines(text) ==
    IF text = <<>> THEN <<>>
    ELSE LET nl == Find(text, <<"\n">>)
         IN IF nl = -1 THEN <<text>>
            ELSE <<SubSeq(text, 1, nl + 1)>>
                 \o ReadLines(SubSeq(text, nl + 2, Len(text)))

----------------------------------------------------------------------------
\* dict

DictKeys(d) == [i \in 1..Len(d) |-> d[i][1]]

DictHas(d, k) == \E i \in 1..Len(d) : d[i][1] = k

DictIndex(d, k) == CHOOSE i \in 1..Len(d) : d[i][1] = k

DictGet(d, k, default) == IF DictHas(d, k) THEN d[DictIndex(d, k)][2] ELSE default

\* a dict that moves an overwritten key to the end
DictSetMoveToEnd(d, k, v) ==
    Append(SelectSeq(d, LAMBDA e : e[1] # k), <<k, v>>)

DictSet(d, k, v) ==
    IF DictHas(d, k)
    THEN [d EXCEPT ![DictIndex(d, k)] = <<k, v>>]
    ELSE Append(d, <<k, v>>)

RECURSIVE DictFromPairs(_)
DictFromPairs(pairs) ==
    IF pairs = <<>> THEN <<>>
    ELSE LET n == Len(pairs)
         IN DictSet(DictFromPairs(SubSeq(pairs, 1, n - 1)), pairs[n][1], pairs[n][2])

----------------------------------------------------------------------------
\* Mapper._split

HasDelimiter(r, delimiter) == Find(r, delimiter) > -1

\* _split without key.strip()
SplitNoKeyStrip(data, delimiter) ==
    IF data.tag # "list" THEN Raise("Exception")
    ELSE
    LET kept == SelectSeq(data.v, LAMBDA r : HasDelimiter(r, delimiter))
        reqs == [i \in 1..Len(kept) |-> SplitOnce(Strip(kept[i]), delimiter)]
    IN Ok(DictFromPairs([i \in 1..Len(reqs) |-> <<reqs[i][1], Strip(reqs[i][2])>>]))

Split(data, delimiter) ==
    IF data.tag # "list" THEN Raise("Exception")
    ELSE
    LET kept == SelectSeq(data.v, LAMBDA r : HasDelimiter(r, delimiter))
        reqs == [i \in 1..Len(kept) |-> SplitOnce(Strip(kept[i]), delimiter)]
    IN IF kept # <<>> /\ delimiter = <<>> THEN Raise("ValueError")
       ELSE IF \E i \in 1..Len(reqs) : Len(reqs[i]) # 2 THEN Raise("ValueError")
       ELSE Ok(DictFromPairs([i \in 1..Len(reqs) |->
                                <<Strip(reqs[i][1]), Strip(reqs[i][2])>>]))

----------------------------------------------------------------------------
\* The filesystem and the paths of the installation environment

SitePkgs == <<"/", "s">>

ReqsPath == <<"r", "e", "q", "u", "i", "r", "e", "m", "e", "n", "t", "s",
              ".", "t", "x", "t">>

EggInfo == <<"e", "g", "g", "-", "i", "n", "f", "o">>
MetadataFile == <<"M", "E", "T", "A", "D", "A", "T", "A">>
PkgInfoFile == <<"P", "K", "G", "-", "I", "N", "F", "O">>
TopLevelFile == <<"t", "o", "p", "_", "l", "e", "v", "e", "l", ".", "t", "x", "t">>

\* os.path.join of two components
PathJoin(a, b) ==
    IF b # <<>> /\ b[1] = "/" THEN b
    ELSE IF a = <<>> \/ a[Len(a)] = "/" THEN a \o b
    ELSE a \o <<"/">> \o b

\* os.path.exists
Exists(f, path) == path \in DOMAIN f

Dir == [kind |-> "dir", text |-> <<>>]
File(text) == [kind |-> "file", text |-> text]

\* "{name}-{version}.{suffix}-info".format(...)
PkgPathTmpl(name, version, suffix) ==
    name \o <<"-">> \o version \o <<".">> \o suffix \o <<"-", "i", "n", "f", "o">>

Suffixes == << <<"e", "g", "g">>, <<"d", "i", "s", "t">> >>

----------------------------------------------------------------------------
\* Mapper._get_pkg_path

RECURSIVE PkgPathLoop(_, _, _, _)
PkgPathLoop(f, name, version, i) ==
    IF i > Len(Suffixes) THEN PyNone
    ELSE LET _pkg_path ==
                 PathJoin(SitePkgs, PkgPathTmpl(name, version, Suffixes[i]))
             _pkg_path2 ==
                 PathJoin(SitePkgs, PkgPathTmpl(Replace(name), version, Suffixes[i]))
         IN IF Exists(f, _pkg_path) THEN PyStr(_pkg_path)
            ELSE IF Exists(f, _pkg_path2) THEN PyStr(_pkg_path2)
            ELSE PkgPathLoop(f, name, version, i + 1)

\* a resolver that tries both suffixes of the name as given before the
\* underscore form
GetPkgPathNameFirst(f, name, version) ==
    LET order == <<PathJoin(SitePkgs, PkgPathTmpl(name, version, Suffixes[1])),
                   PathJoin(SitePkgs, PkgPathTmpl(name, version, Suffixes[2])),
                   PathJoin(SitePkgs, PkgPathTmpl(Replace(name), version, Suffixes[1])),
                   PathJoin(SitePkgs, PkgPathTmpl(Replace(name), version, Suffixes[2]))>>
        hits == {i \in 1..4 : Exists(f, order[i])}
    IN IF hits = {} THEN PyNone
       ELSE PyStr(order[CHOOSE i \in hits : \A j \in hits : i <= j])

GetPkgPath(f, name, version) == PkgPathLoop(f, name, version, 1)

----------------------------------------------------------------------------
\* Mapper._read

Read(f, path) ==
    IF ~Exists(f, path) THEN Raise("Exception")
    ELSE IF f[path].kind = "dir" THEN Raise("IsADirectoryError")
    ELSE Ok(PyList(ReadLines(f[path].text)))

----------------------------------------------------------------------------
\* Mapper._get_pkg_meta

MetaFileOf(location) ==
    IF EndsWith(location, EggInfo) THEN PkgInfoFile ELSE MetadataFile

GetPkgMeta(f, location) ==
    LET _meta_file == MetaFileOf(location)
    IN IF ~Exists(f, PathJoin(location, _meta_file)) THEN Ok(PyNone)
       ELSE LET _file_data == Read(f, PathJoin(location, _meta_file))
            IN IF _file_data.tag = "raise" THEN _file_data
               ELSE LET _meta_data == Split(_file_data.v, <<":">>)
                    IN IF _meta_data.tag = "raise" THEN _meta_data
                       ELSE Ok(PyDict(_meta_data.v))

----------------------------------------------------------------------------
\* Mapper._get_pkg_top_level

GetPkgTopLevel(f, location) ==
    IF ~Exists(f, PathJoin(location, TopLevelFile)) THEN Ok(PyNone)
    ELSE LET _file_data == Read(f, PathJoin(location, TopLevelFile))
         IN IF _file_data.tag = "raise" THEN _file_data
            ELSE Ok(PyList([i \in 1..Len(_file_data.v.v) |->
                              Strip(_file_data.v.v[i])]))

----------------------------------------------------------------------------
\* Mapper._add_pkg_data: the _pkgs_map it leaves and the entry it stored in it
\* (PyNone when it returned early), or the exception it raises

NameKey == <<"N", "a", "m", "e">>
VersionKey == <<"V", "e", "r", "s", "i", "o", "n">>

Raw(name, version) == name \o <<"=", "=">> \o version

\* _pkg_meta.get("Name") or name
PkgName(_pkg_meta, name) ==
    LET got == DictGet(_pkg_meta.v, NameKey, <<>>)
    IN IF got # <<>> THEN got ELSE name

PkgRecord(_pkg_meta, name, version, _pkg_modules) ==
    [metadata |-> _pkg_meta,
     requirements |-> [name |-> name, version |-> version,
                       raw |-> Raw(name, version)],
     top_level |-> _pkg_modules]

AddPkgData(f, map, name, version) ==
    LET _pkg_location == GetPkgPath(f, name, version)
    IN IF _pkg_location = PyNone THEN Ok([map |-> map, stored |-> PyNone])
       ELSE
       LET _pkg_meta == GetPkgMeta(f, _pkg_location.v)
       IN IF _pkg_meta.tag = "raise" THEN _pkg_meta
          ELSE IF _pkg_meta.v = PyNone THEN Raise("AttributeError")
          ELSE
          LET _pkg_name == PkgName(_pkg_meta.v, name)
              _pkg_modules == GetPkgTopLevel(f, _pkg_location.v)
          IN IF _pkg_modules.tag = "raise" THEN _pkg_modules
             ELSE LET rec == PkgRecord(_pkg_meta.v, name, version, _pkg_modules.v)
                  IN Ok([map |-> DictSet(map, _pkg_name, rec),
                         stored |-> [tag |-> "entry", key |-> _pkg_name,
                                     rec |-> rec]])

----------------------------------------------------------------------------
\* Mapper._format

Verbose == "v"

Unknown == <<"U", "N", "K", "N", "O", "W", "N">>

\* an alias that treats "-" and "_" alike
AliasNormalized(_reqs_name, pkg) ==
    IF Replace(_reqs_name) # Replace(pkg) THEN _reqs_name ELSE <<>>

\* "alias": _reqs_name if _reqs_name != pkg else ""
Alias(_reqs_name, pkg) == IF _reqs_name # pkg THEN _reqs_name ELSE <<>>

\* data.get("top_level", [])
Modules(data) == data.top_level

\* data.get("metadata", {}).get("Version", "UNKNOWN")
VersionOf(data) == DictGet(data.metadata.v, VersionKey, Unknown)

Summary(pkg, data) ==
    [name |-> pkg,
     version |-> VersionOf(data),
     modules |-> Modules(data),
     alias |-> Alias(data.requirements.name, pkg)]

PkgsInfo(map) ==
    IF Verbose = "v"
    THEN [i \in 1..Len(map) |-> Summary(map[i][1], map[i][2])]
    ELSE <<>>

\* json.dumps, as the text's characters
JsonStr(s) == <<"\"">> \o s \o <<"\"">>

JsonArray(items) == <<"[">> \o Join(items, <<",", " ">>) \o <<"]">>

JsonModules(m) ==
    IF m = PyNone THEN <<"n", "u", "l", "l">>
    ELSE JsonArray([i \in 1..Len(m.v) |-> JsonStr(m.v[i])])

JsonMember(key, value) == JsonStr(key) \o <<":", " ">> \o value

JsonRecord(r) ==
    <<"{">> \o
    Join(<<JsonMember(<<"n", "a", "m", "e">>, JsonStr(r.name)),
           JsonMember(<<"v", "e", "r", "s", "i", "o", "n">>, JsonStr(r.version)),
           JsonMember(<<"m", "o", "d", "u", "l", "e", "s">>, JsonModules(r.modules)),
           JsonMember(<<"a", "l", "i", "a", "s">>, JsonStr(r.alias))>>,
         <<",", " ">>)
    \o <<"}">>

JsonDumps(info) == JsonArray([i \in 1..Len(info) |-> JsonRecord(info[i])])

Format(map, f) ==
    IF f = "json" THEN PyStr(JsonDumps(PkgsInfo(map))) ELSE PyList(PkgsInfo(map))

----------------------------------------------------------------------------
\* The environment of a run: the manifests the caller may put at ReqsPath and
\* what the external installer may leave in site-packages for a requirement.

NameAB == <<"a", "-", "b">>
NameA_B == <<"a", "_", "b">>
NameC == <<"c">>
Ver1 == <<"1">>
DistSuffix == <<"d", "i", "s", "t">>
EggSuffix == <<"e", "g", "g">>

ReqLine(name, version) == name \o <<"=", "=">> \o version \o <<"\n">>

Manifests ==
    { <<ReqLine(NameAB, Ver1), ReqLine(NameC, Ver1)>>,
      <<ReqLine(NameA_B, Ver1), <<"#", " ", "x", "\n">>, ReqLine(NameC, Ver1),
        <<" ">> \o NameAB \o <<" ", "=", "=", " ">> \o Ver1 \o <<"\n">> >>,
      <<ReqLine(NameC, Ver1)>> }

\* a distribution: its metadata directory and the files in it
Dist(dir, files) == [dir |-> PathJoin(SitePkgs, dir), files |-> files]

DistAB ==
    Dist(PkgPathTmpl(NameA_B, Ver1, DistSuffix),
         << <<MetadataFile, << <<"N", "a", "m", "e", ":", " ", "a", "-", "b", "\n">>,
                               <<"V", "e", "r", "s", "i", "o", "n", ":", " ", "1", "\n">>,
                               <<"U", ":", " ", "h", ":", "x", "\n">> >> >>,
            <<TopLevelFile, << <<"m", "\n">>, <<"n", "\n">> >> >> >>)

DistCEgg ==
    Dist(PkgPathTmpl(NameC, Ver1, EggSuffix),
         << <<PkgInfoFile, << <<"N", "a", "m", "e", ":", " ", "C", "\n">> >> >> >>)

DistCDist ==
    Dist(PkgPathTmpl(NameC, Ver1, DistSuffix),
         << <<MetadataFile, << <<"S", ":", " ", "x", "\n">> >> >>,
            <<TopLevelFile, << <<"c", "\n">> >> >> >>)

DistCBare ==
    Dist(PkgPathTmpl(NameC, Ver1, DistSuffix),
         << <<TopLevelFile, << <<"c", "\n">> >> >> >>)

\* what an install of name==version may leave behind
Index(name, version) ==
    IF version # Ver1 THEN {}
    ELSE IF name \in {NameAB, NameA_B} THEN {DistAB}
    ELSE IF name = NameC THEN {DistCEgg, DistCDist, DistCBare}
    ELSE {}

IsUnder(path, dir) ==
    Len(path) > Len(dir) /\ SubSeq(path, 1, Len(dir) + 1) = dir \o <<"/">>

\* the installer replaces the distribution's directory
WriteDist(f, d) ==
    LET kept == {p \in DOMAIN f : p # d.dir /\ ~IsUnder(p, d.dir)}
        new == {d.dir} \cup {PathJoin(d.dir, d.files[i][1]) : i \in 1..Len(d.files)}
        Content(p) ==
            IF p = d.dir THEN Dir
            ELSE File(Join(d.files[CHOOSE i \in 1..Len(d.files) :
                                       PathJoin(d.dir, d.files[i][1]) = p][2], <<>>))
    IN [p \in kept \cup new |-> IF p \in new THEN Content(p) ELSE f[p]]

Stderrs == {<<>>, <<"E">>}

Formats == {"json", "list"}

----------------------------------------------------------------------------
\* Mapper._cmd: the command as issued, with the stderr the subprocess gave

Cmd(op, name, version, stderr) ==
    [op |-> op, name |-> name, version |-> version, err |-> stderr,
     stored |-> PyNone]

\* what _add_pkg_data did for a requirement: the entry it stored, if any
Added(name, version, res) ==
    [op |-> "add", name |-> name, version |-> version, err |-> <<>>,
     stored |-> IF res.tag = "ok" THEN res.v.stored ELSE PyNone]

----------------------------------------------------------------------------
\* Mapper.__init__

NoCall == [fn |-> "none"]

Idle ==
    /\ pkgs_map = <<>>
    /\ pc = "idle"
    /\ reqs_dict = <<>>
    /\ idx = 0
    /\ cur_err = <<>>
    /\ log = <<>>
    /\ map0 = <<>>
    /\ pkgs_info = <<>>
    /\ response = PyNone

Init ==
    /\ fs = [p \in {SitePkgs} |-> Dir]
    /\ fmt \in Formats
    /\ Idle
    /\ call = NoCall
    /\ ret = PyNone

----------------------------------------------------------------------------
\* The caller edits or removes the manifest between two calls of map()

Returned == pc \in {"idle", "done", "raised"}

WriteManifest ==
    /\ Returned
    /\ \E m \in Manifests : fs' = [p \in DOMAIN fs \cup {ReqsPath} |->
                                     IF p = ReqsPath THEN File(Join(m, <<>>)) ELSE fs[p]]
    /\ UNCHANGED <<mapVars, call, ret>>

RemoveManifest ==
    /\ Returned
    /\ ReqsPath \in DOMAIN fs
    /\ fs' = [p \in DOMAIN fs \ {ReqsPath} |-> fs[p]]
    /\ UNCHANGED <<mapVars, call, ret>>

----------------------------------------------------------------------------
\* Mapper.map, step by step

\* line 247: the installer's self-upgrade
MapUpgradeTo(next, stderr) ==
    /\ pc' = next
    /\ log' = <<Cmd("upgrade", <<>>, <<>>, stderr)>>
    /\ map0' = pkgs_map
    /\ reqs_dict' = <<>>
    /\ idx' = 0
    /\ cur_err' = <<>>
    /\ pkgs_info' = <<>>
    /\ response' = PyNone
    /\ UNCHANGED <<fs, fmt, pkgs_map, call, ret>>

\* a map() that gives up when the self-upgrade wrote to stderr
AfterUpgradeChecked(stderr) == IF stderr # <<>> THEN "raised" ELSE "read"

\* the result of the self-upgrade is dropped: map() goes on to read the manifest
AfterUpgrade(stderr) == "read"

MapUpgrade ==
    /\ Returned
    /\ \E stderr \in Stderrs : MapUpgradeTo(AfterUpgrade(stderr), stderr)

\* lines 248-249: read and split the manifest
MapRead ==
    /\ pc = "read"
    /\ LET reqs_lines == Read(fs, ReqsPath)
           parsed == IF reqs_lines.tag = "raise" THEN reqs_lines
                     ELSE Split(reqs_lines.v, <<"=", "=">>)
       IN IF parsed.tag = "raise"
          THEN /\ pc' = "raised"
               /\ response' = parsed
               /\ UNCHANGED <<reqs_dict, idx>>
          ELSE /\ pc' = "loop"
               /\ reqs_dict' = parsed.v
               /\ idx' = 1
               /\ UNCHANGED response
    /\ UNCHANGED <<fs, fmt, pkgs_map, cur_err, log, map0, pkgs_info, call, ret>>

\* a loop that enriches whatever the install said
AfterInstallNoCheck(stderr) == "enrich"

\* lines 250-255: install the next requirement; skip it when stderr is not empty
AfterInstall(stderr) == IF stderr # <<>> THEN "skip" ELSE "enrich"

MapInstall ==
    /\ pc = "loop"
    /\ idx <= Len(reqs_dict)
    /\ LET name == reqs_dict[idx][1]
           version == reqs_dict[idx][2]
       IN /\ \E stderr \in Stderrs :
                /\ log' = Append(log, Cmd("install", name, version, stderr))
                /\ cur_err' = stderr
                /\ IF AfterInstall(stderr) = "skip"
                   THEN pc' = "loop" /\ idx' = idx + 1
                   ELSE pc' = "enrich" /\ idx' = idx
          /\ \/ fs' = fs
             \/ \E d \in Index(name, version) : fs' = WriteDist(fs, d)
    /\ UNCHANGED <<fmt, pkgs_map, reqs_dict, map0, pkgs_info, response, call, ret>>

\* line 256: _add_pkg_data
MapAddPkgData ==
    /\ pc = "enrich"
    /\ LET name == reqs_dict[idx][1]
           version == reqs_dict[idx][2]
           res == AddPkgData(fs, pkgs_map, name, version)
       IN /\ log' = Append(log, Added(name, version, res))
          /\ IF res.tag = "raise"
             THEN /\ pc' = "raised"
                  /\ response' = res
                  /\ UNCHANGED <<pkgs_map, idx>>
             ELSE /\ pc' = "loop"
                  /\ pkgs_map' = res.v.map
                  /\ idx' = idx + 1
                  /\ UNCHANGED response
    /\ UNCHANGED <<fs, fmt, reqs_dict, cur_err, map0, pkgs_info, call, ret>>

\* line 257: _format
MapFormat ==
    /\ pc = "loop"
    /\ idx > Len(reqs_dict)
    /\ pc' = "done"
    /\ pkgs_info' = PkgsInfo(pkgs_map)
    /\ response' = Ok(Format(pkgs_map, fmt))
    /\ UNCHANGED <<fs, fmt, pkgs_map, reqs_dict, idx, cur_err, log, map0, call, ret>>

Next ==
    \/ WriteManifest
    \/ RemoveManifest
    \/ MapUpgrade
    \/ MapRead
    \/ MapInstall
    \/ MapAddPkgData
    \/ MapFormat

Spec == Init /\ [][Next]_vars

----------------------------------------------------------------------------
\* A direct call of _get_pkg_path(name, version) on an arbitrary site-packages

Pending == [tag |-> "pending"]

Ver2 == <<"2">>

PathNames == {NameAB, NameA_B, NameC}

PathVersions == {Ver1, Ver2}

PathPool ==
    {PathJoin(SitePkgs, PkgPathTmpl(n, v, Suffixes[i])) :
        n \in PathNames, v \in PathVersions, i \in 1..Len(Suffixes)}

InitPath ==
    /\ \E ds \in SUBSET PathPool : fs = [p \in ds \cup {SitePkgs} |-> Dir]
    /\ fmt = "json"
    /\ Idle
    /\ \E n \in PathNames, v \in PathVersions :
          call = [fn |-> "_get_pkg_path", name |-> n, version |-> v]
    /\ ret = Pending

CallGetPkgPath ==
    /\ call.fn = "_get_pkg_path"
    /\ ret = Pending
    /\ ret' = Ok(GetPkgPath(fs, call.name, call.version))
    /\ UNCHANGED <<fs, mapVars, call>>

NextPath == CallGetPkgPath

SpecPath == InitPath /\ [][NextPath]_vars

----------------------------------------------------------------------------
\* A direct call of _split(data, delimiter) on the lines of a text

MaxText == 8

\* the two delimiters map() and _get_pkg_meta pass
Delimiters == {<<"=", "=">>, <<":">>}

Alphabet(delimiter) ==
    {"a", " ", "\n"} \cup {delimiter[i] : i \in 1..Len(delimiter)}

Strings(alphabet, n) == UNION {[1..k -> alphabet] : k \in 0..n}

InitSplit ==
    /\ fs = [p \in {SitePkgs} |-> Dir]
    /\ fmt = "json"
    /\ Idle
    /\ \E d \in Delimiters :
          \/ \E text \in Strings(Alphabet(d), MaxText) :
                call = [fn |-> "_split", data |-> PyList(ReadLines(text)),
                        delimiter |-> d]
          \/ call = [fn |-> "_split", data |-> PyInt(0), delimiter |-> d]
    /\ ret = Pending

CallSplit ==
    /\ call.fn = "_split"
    /\ ret = Pending
    /\ ret' = Split(call.data, call.delimiter)
    /\ UNCHANGED <<fs, mapVars, call>>

NextSplit == CallSplit

SpecSplit == InitSplit /\ [][NextSplit]_vars

----------------------------------------------------------------------------
\* Reading the log of the current map() call

IsInstall(e) == e.op = "install"
IsAdd(e) == e.op = "add"
IsStore(e) == e.op = "add" /\ e.stored # PyNone

Installs == SelectSeq(log, IsInstall)
Stores == SelectSeq(log, IsStore)

\* the requirement a summary record was built from
Origin(r) == IF r.alias # <<>> THEN r.alias ELSE r.name

RECURSIVE Dedup(_)
Dedup(s) ==
    IF s = <<>> THEN <<>>
    ELSE LET n == Len(s)
             front == Dedup(SubSeq(s, 1, n - 1))
         IN IF \E i \in 1..Len(front) : front[i] = s[n] THEN front
            ELSE Append(front, s[n])

----------------------------------------------------------------------------
\* C1: a requirement whose install returned non-empty stderr gets no record
\* stored for it, has no record in the final output, does not make map()
\* raise, and the loop goes on to the next requirement.
C1_NoRecordForFailedInstall ==
    \A i \in 1..Len(log) :
        (IsInstall(log[i]) /\ log[i].err # <<>>) =>
            /\ \A j \in 1..Len(Stores) : Stores[j].name # log[i].name
            /\ i = Len(log) => (pc \in {"loop", "done"} /\ idx = Len(Installs) + 1)
            /\ pc = "done" =>
                  \A k \in 1..Len(pkgs_info) : Origin(pkgs_info[k]) # log[i].name

\* C2: map() raises only for an input error, that is while reading the
\* manifest and before any requirement is installed; a missing metadata
\* directory, metadata file or top_level.txt never makes it raise.
C2_OnlyInputErrorsAbort ==
    pc = "raised" => (Len(log) = 1 /\ response = Raise("Exception"))

\* C4: every summary record has the record's top_level as modules, the empty
\* list when top_level is absent, and the metadata's Version, "UNKNOWN" when
\* the metadata has none.
C4_ModulesAndVersion ==
    pc = "done" =>
        /\ Len(pkgs_info) = Len(pkgs_map)
        /\ \A i \in 1..Len(pkgs_map) :
              LET data == pkgs_map[i][2]
              IN /\ pkgs_info[i].modules =
                       IF data.top_level = PyNone THEN PyList(<<>>)
                       ELSE data.top_level
                 /\ pkgs_info[i].version =
                       IF DictHas(data.metadata.v, VersionKey)
                       THEN DictGet(data.metadata.v, VersionKey, <<>>)
                       ELSE Unknown

\* C5: the output of a map() call holds only records stored during that
\* call, none carried over from an earlier call on the same Mapper.
C5_OutputOnlyFromThisCall ==
    pc = "done" =>
        \A k \in 1..Len(pkgs_info) :
            \E i \in 1..Len(Stores) : Stores[i].stored.key = pkgs_info[k].name

\* C6: the output lists one record per distinct canonical name, in the order
\* in which the names were first stored, each with the data of the last
\* requirement stored under that name.
LastStored(k) ==
    LET hits == {i \in 1..Len(Stores) : Stores[i].stored.key = k}
    IN IF hits # {}
       THEN Stores[CHOOSE i \in hits : \A j \in hits : j <= i].stored.rec
       ELSE DictGet(map0, k, PyNone)

C6_InsertionOrderLastWins ==
    pc = "done" =>
        /\ [i \in 1..Len(pkgs_info) |-> pkgs_info[i].name] =
               Dedup(DictKeys(map0) \o [i \in 1..Len(Stores) |-> Stores[i].stored.key])
        /\ \A i \in 1..Len(pkgs_info) :
              LET r == pkgs_info[i]
                  last == LastStored(r.name)
              IN /\ Origin(r) = last.requirements.name
                 /\ r.version = DictGet(last.metadata.v, VersionKey, Unknown)
                 /\ last.top_level # PyNone => r.modules = last.top_level
                 /\ r.name = PkgName(last.metadata, last.requirements.name)

C6_Witness ==
    /\ pc = "done"
    /\ Len(pkgs_info) = 2
    /\ Len(Stores) = 3
    /\ Stores[1].stored.key = Stores[3].stored.key
    /\ Stores[1].stored.rec # Stores[3].stored.rec
    /\ Stores[2].stored.key = Stores[2].name
    /\ pkgs_info[1].name = Stores[3].stored.key
    /\ pkgs_info[1].alias = <<>>

\* C8: alias is the declared requirement name when it differs literally from
\* the canonical name, and the empty string when the two are equal.
C8_AliasLiteral ==
    pc = "done" =>
        /\ Len(pkgs_info) = Len(pkgs_map)
        /\ \A i \in 1..Len(pkgs_map) :
              LET declared == pkgs_map[i][2].requirements.name
              IN /\ pkgs_info[i].name = pkgs_map[i][1]
                 /\ declared = pkgs_info[i].name => pkgs_info[i].alias = <<>>
                 /\ declared # pkgs_info[i].name => pkgs_info[i].alias = declared

C8_Witness ==
    /\ pc = "done"
    /\ \E i \in 1..Len(pkgs_info) :
          /\ pkgs_info[i].alias = NameA_B
          /\ pkgs_info[i].name = NameAB
    /\ \E i \in 1..Len(pkgs_info) :
          /\ pkgs_info[i].alias = NameC
          /\ pkgs_info[i].name = <<"C">>

\* C9: a map() call issues exactly one self-upgrade command, before any
\* install, and goes on in the same way whatever stderr the upgrade gave: it
\* reads the manifest, installs exactly the manifest's requirements in order
\* and raises nothing because of the upgrade.
ManifestReqs == Split(Read(fs, ReqsPath).v, <<"=", "=">>).v

C9_UpgradeOnceFirstIgnored ==
    pc # "idle" =>
        /\ Len(log) >= 1
        /\ \A i \in 1..Len(log) : (log[i].op = "upgrade") <=> (i = 1)
        /\ Len(log) = 1 =>
              \/ pc = "read"
              \/ pc = "raised" /\ response = Raise("Exception")
              \/ pc \in {"loop", "done"} /\ reqs_dict = <<>>
              \/ pc = "loop" /\ idx = 1
        /\ pc \in {"loop", "enrich"} =>
              /\ reqs_dict = ManifestReqs
              /\ [i \in 1..Len(Installs) |-> <<Installs[i].name, Installs[i].version>>]
                    = SubSeq(reqs_dict, 1, Len(Installs))
        /\ pc = "done" => Len(Installs) = Len(reqs_dict)

C9_Witness ==
    /\ pc = "done"
    /\ log[1].err # <<>>
    /\ Len(Installs) = 3
    /\ Len(pkgs_info) = 2

----------------------------------------------------------------------------
\* The four candidate directories of (name, version)

PlainEgg(name, version) == PathJoin(SitePkgs, name \o <<"-">> \o version \o <<".">> \o EggInfo)
PlainDist(name, version) ==
    PathJoin(SitePkgs, name \o <<"-">> \o version
                       \o <<".", "d", "i", "s", "t", "-", "i", "n", "f", "o">>)
UnderEgg(name, version) == PlainEgg(Replace(name), version)
UnderDist(name, version) == PlainDist(Replace(name), version)

FirstExisting(order) ==
    LET hits == {i \in 1..Len(order) : order[i] \in DOMAIN fs}
    IN IF hits = {} THEN PyNone
       ELSE PyStr(order[CHOOSE i \in hits : \A j \in hits : i <= j])

PathCalled == call.fn = "_get_pkg_path" /\ ret # Pending

----------------------------------------------------------------------------
\* A line's key and value, read off the line itself: the text before and
\* after the first occurrence of the delimiter, without surrounding whitespace

Occurs(line, d, i) == i + Len(d) - 1 <= Len(line) /\ SubSeq(line, i, i + Len(d) - 1) = d

Contains(line, d) == \E i \in 1..Len(line) : Occurs(line, d, i)

FirstAt(line, d) ==
    CHOOSE i \in 1..Len(line) :
        Occurs(line, d, i) /\ \A j \in 1..(i - 1) : ~Occurs(line, d, j)

Trimmed(s) ==
    LET inner == {i \in 1..Len(s) : s[i] \notin Whitespace}
    IN IF inner = {} THEN <<>>
       ELSE SubSeq(s, CHOOSE i \in inner : \A j \in inner : i <= j,
                      CHOOSE i \in inner : \A j \in inner : j <= i)

KeyOf(line, d) == Trimmed(SubSeq(line, 1, FirstAt(line, d) - 1))

ValueOf(line, d) == Trimmed(SubSeq(line, FirstAt(line, d) + Len(d), Len(line)))

SplitCalled == call.fn = "_split" /\ ret # Pending /\ call.data.tag = "list"

====
